---- MODULE Spec2Model ----
(***************************************************************************)
(* Model of notebooks/results.py: load_results, compute_stats and          *)
(* general_stats.                                                          *)
(*                                                                         *)
(* Strings (member names, column names) are sequences of one-character     *)
(* strings, so that startswith, basename, splitext, split and float are    *)
(* computed as the library computes them.  Numbers are exact rationals     *)
(* [num, den] in lowest terms with den > 0; den = 0 encodes the IEEE       *)
(* specials: 0/0 is NaN (pandas' missing value), 1/0 is +inf, -1/0 is -inf.*)
(***************************************************************************)
EXTENDS Integers, Sequences, FiniteSets, TLC

VARIABLES pc, args, tar, locals, ret, exc

vars == <<pc, args, tar, locals, ret, exc>>

(***************************************************************************)
(* Bounds of the model.                                                    *)
(***************************************************************************)
\* members of an archive besides the baseline member
MaxMembers == 2
\* rows of a generated result table
MaxRows == 2
\* entries of a family mapping handed to general_stats
MaxFamily == 2
\* length of the findq_subset iterable handed to general_stats
MaxSubset == 2

(***************************************************************************)
(* Generic helpers.                                                        *)
(***************************************************************************)
\* Python's None
None == [none |-> TRUE]

SeqsUpTo(S, n) == UNION {[1..k -> S] : k \in 0..n}

Abs(i) == IF i < 0 THEN -i ELSE i

Sign(i) == IF i < 0 THEN -1 ELSE IF i > 0 THEN 1 ELSE 0

RECURSIVE Gcd(_, _)
Gcd(a, b) == IF b = 0 THEN a ELSE Gcd(b, a % b)

RECURSIVE Pow10(_)
Pow10(k) == IF k = 0 THEN 1 ELSE 10 * Pow10(k - 1)

(***************************************************************************)
(* Floating-point values as exact rationals, with NaN and the infinities.  *)
(***************************************************************************)
NaN == [num |-> 0, den |-> 0]

\* n/d in lowest terms; d = 0 gives NaN or a signed infinity
R(n, d) ==
    IF d = 0 THEN [num |-> Sign(n), den |-> 0]
    ELSE LET g == Gcd(Abs(n), Abs(d))
             s == IF d < 0 THEN -1 ELSE 1
         IN  [num |-> s * (n \div g), den |-> s * (d \div g)]

IsNaN(x) == x.den = 0 /\ x.num = 0

IsInf(x) == x.den = 0 /\ x.num # 0

RAdd(x, y) ==
    IF IsNaN(x) \/ IsNaN(y) THEN NaN
    ELSE IF IsInf(x) /\ IsInf(y) THEN (IF x.num = y.num THEN x ELSE NaN)
    ELSE IF IsInf(x) THEN x
    ELSE IF IsInf(y) THEN y
    ELSE R(x.num * y.den + y.num * x.den, x.den * y.den)

RNeg(x) == [num |-> -x.num, den |-> x.den]

RSub(x, y) == RAdd(x, RNeg(y))

RMul(x, y) ==
    IF IsNaN(x) \/ IsNaN(y) THEN NaN
    ELSE IF IsInf(x) \/ IsInf(y) THEN R(Sign(x.num) * Sign(y.num), 0)
    ELSE R(x.num * y.num, x.den * y.den)

\* IEEE division as numpy performs it: x/0 is a signed infinity, 0/0 is NaN
RDiv(x, y) ==
    IF IsNaN(x) \/ IsNaN(y) THEN NaN
    ELSE IF IsInf(x) /\ IsInf(y) THEN NaN
    ELSE IF IsInf(x) THEN R(x.num * (IF y.num < 0 THEN -1 ELSE 1), 0)
    ELSE IF IsInf(y) THEN R(0, 1)
    ELSE IF y.num = 0 THEN R(x.num, 0)
    ELSE R(x.num * y.den, x.den * y.num)

\* == on floats: NaN equals nothing, not even itself
FloatEq(x, y) == ~IsNaN(x) /\ ~IsNaN(y) /\ x = y

(***************************************************************************)
(* Strings as sequences of characters.                                     *)
(***************************************************************************)
Digits == {"0", "1", "2", "5"}

DigitVal(c) == CASE c = "0" -> 0 [] c = "1" -> 1 [] c = "2" -> 2 [] c = "5" -> 5

\* str.startswith
StartsWith(s, p) == Len(s) >= Len(p) /\ SubSeq(s, 1, Len(p)) = p

\* the positions of character c in s
Positions(s, c) == {i \in 1..Len(s) : s[i] = c}

SetMax(S) == CHOOSE m \in S : \A x \in S : x <= m

SetMin(S) == CHOOSE m \in S : \A x \in S : m <= x

\* os.path.basename: what follows the last "/"
Basename(p) ==
    IF Positions(p, "/") = {} THEN p
    ELSE SubSeq(p, SetMax(Positions(p, "/")) + 1, Len(p))

\* os.path.splitext(p)[0] of a name without "/": cut at the last ".", unless
\* only dots come before it
SplitextRoot(p) ==
    IF Positions(p, ".") = {} THEN p
    ELSE LET dot == SetMax(Positions(p, "."))
         IN  IF \E i \in 1..(dot - 1) : p[i] # "." THEN SubSeq(p, 1, dot - 1)
             ELSE p

\* str.split(sep): the fields between the separators, empty ones kept
RECURSIVE Split(_, _)
Split(s, sep) ==
    IF Positions(s, sep) = {} THEN <<s>>
    ELSE LET i == SetMin(Positions(s, sep))
         IN  <<SubSeq(s, 1, i - 1)>> \o Split(SubSeq(s, i + 1, Len(s)), sep)

\* the decimal value of a string of digits
RECURSIVE DecimalValue(_)
DecimalValue(s) ==
    IF s = <<>> THEN 0
    ELSE 10 * DecimalValue(SubSeq(s, 1, Len(s) - 1)) + DigitVal(s[Len(s)])

AllDigits(s) == \A i \in 1..Len(s) : s[i] \in Digits

\* float(s) for a string over digits, "." and letters: digits, or digits
\* with one "." and at least one digit around it; anything else raises
\* ValueError.  (The names of the model never spell "inf", "nan", a sign or
\* an exponent.)
FloatOk(s) ==
    LET dots == Positions(s, ".")
    IN  \/ (dots = {} /\ Len(s) > 0 /\ AllDigits(s))
        \/ (Cardinality(dots) = 1 /\ Len(s) > 1
            /\ \A i \in 1..Len(s) : s[i] = "." \/ s[i] \in Digits)

Float(s) ==
    IF Positions(s, ".") = {} THEN R(DecimalValue(s), 1)
    ELSE LET dot  == SetMin(Positions(s, "."))
             ip   == SubSeq(s, 1, dot - 1)
             fp   == SubSeq(s, dot + 1, Len(s))
         IN  R(DecimalValue(ip) * Pow10(Len(fp)) + DecimalValue(fp), Pow10(Len(fp)))

(***************************************************************************)
(* Result tables (pandas.DataFrame): column names in order, and rows of    *)
(* cells in column order.  A missing cell is NaN.                          *)
(***************************************************************************)
cAlpha == <<"a", "l", "p", "h", "a">>

cTime == <<"t", "i", "m", "e">>

cExact == <<"e", "x", "a", "c", "t">>

cMaxX == <<"m", "a", "x", "_", "x">>

cMaxY == <<"m", "a", "x", "_", "y">>

\* a column that misses the prefix by its underscore
cMaxi == <<"m", "a", "x", "i">>

cMaxPrefix == <<"m", "a", "x", "_">>

Table(cols, rows) == [columns |-> cols, rows |-> rows]

\* position of a column label, 0 when the table has no such column
ColIndex(data, label) ==
    IF \E i \in 1..Len(data.columns) : data.columns[i] = label
    THEN CHOOSE i \in 1..Len(data.columns) : data.columns[i] = label
    ELSE 0

HasColumn(data, label) == ColIndex(data, label) # 0

\* data[label] as the sequence of its cells
Column(data, label) ==
    [r \in 1..Len(data.rows) |-> data.rows[r][ColIndex(data, label)]]

RowHasNaN(row) == \E i \in 1..Len(row) : IsNaN(row[i])

\* data[mask]: the rows at the positions where keep is TRUE, in order
RECURSIVE SelectRows(_, _)
SelectRows(rows, keep) ==
    IF rows = <<>> THEN <<>>
    ELSE (IF keep[1] THEN <<rows[1]>> ELSE <<>>)
         \o SelectRows(Tail(rows), Tail(keep))

\* DataFrame.dropna(axis=0, how='any'): the rows without a missing cell
Dropna(data) ==
    Table(data.columns,
          SelectRows(data.rows,
                     [r \in 1..Len(data.rows) |-> ~RowHasNaN(data.rows[r])]))

(***************************************************************************)
(* Mappings (dict): entries in insertion order, keys unique.               *)
(***************************************************************************)
DictKeys(d) == {d[i].key : i \in 1..Len(d)}

DictHas(d, k) == k \in DictKeys(d)

DictGet(d, k) == d[CHOOSE i \in 1..Len(d) : d[i].key = k].value

\* d[k] = v: a new key is appended, a known key keeps its place and takes v
DictSet(d, k, v) ==
    IF DictHas(d, k)
    THEN [i \in 1..Len(d) |-> IF d[i].key = k THEN [key |-> k, value |-> v] ELSE d[i]]
    ELSE Append(d, [key |-> k, value |-> v])

(***************************************************************************)
(* load_results.  An archive is the sequence of its members, in the order  *)
(* tar.getnames() lists them; a member has a name, and either is a regular *)
(* file holding a CSV table or is a directory.                             *)
(***************************************************************************)
RunId == <<"r">>

\* f'{run_id}/find2.csv'
Find2Path == RunId \o <<"/", "f", "i", "n", "d", "2", ".", "c", "s", "v">>

FindgPrefix == <<"f", "i", "n", "d", "g">>

Raise(type, at) == [type |-> type, at |-> at]

\* TarFile.getmember: the last member of that name, 0 when there is none
GetMember(members, name) ==
    IF \E i \in 1..Len(members) : members[i].name = name
    THEN SetMax({i \in 1..Len(members) : members[i].name = name})
    ELSE 0

\* pandas.read_csv(tar.extractfile(name)): extractfile raises KeyError for
\* an unknown name and returns None for a directory, which read_csv refuses
ReadMember(members, name) ==
    LET i == GetMember(members, name)
    IN  IF i = 0 THEN [error |-> "KeyError", table |-> None]
        ELSE IF ~members[i].isfile THEN [error |-> "ValueError", table |-> None]
        ELSE [error |-> "", table |-> members[i].table]

\* mutant: the baseline is kept as read
LoadBaseline_keep(table) == table

\* find2 = read_csv(...); find2.dropna(0, inplace=True, how='any'), with a
\* pandas that takes the axis as a positional argument (before 2.0)
LoadBaseline(table) == Dropna(table)

\* mutant: family tables cleaned like the baseline
LoadFamilyTable_dropna(table) == Dropna(table)

\* the table stored under a family key: read_csv(...) as it is
LoadFamilyTable(table) == table

\* name = splitext(filename)[0]; _, lambd, gamma = name.split('_');
\* (float(lambd), float(gamma))
ParseKey(filename) ==
    LET fields == Split(SplitextRoot(filename), "_")
    IN  IF Len(fields) # 3 THEN [error |-> "ValueError", key |-> None]
        ELSE IF ~FloatOk(fields[2]) \/ ~FloatOk(fields[3])
             THEN [error |-> "ValueError", key |-> None]
             ELSE [error |-> "", key |-> <<Float(fields[2]), Float(fields[3])>>]

\* mutant: a member whose name does not parse is skipped
LoadStep_skip(members, i, findq) ==
    LET m        == members[i].name
        filename == Basename(m)
        read     == ReadMember(members, m)
        parsed   == ParseKey(filename)
    IN  IF ~StartsWith(filename, FindgPrefix) \/ parsed.error # ""
        THEN [error |-> "", findq |-> findq]
        ELSE IF read.error # "" THEN [error |-> read.error, findq |-> findq]
        ELSE [error |-> "",
              findq |-> DictSet(findq, parsed.key, LoadFamilyTable(read.table))]

\* one iteration of the loop over tar.getnames(): the mapping after it, or
\* the error it raises
LoadStep(members, i, findq) ==
    LET m        == members[i].name
        filename == Basename(m)
    IN  IF ~StartsWith(filename, FindgPrefix) THEN [error |-> "", findq |-> findq]
        ELSE LET unpack == Split(SplitextRoot(filename), "_")
                 read   == ReadMember(members, m)
                 parsed == ParseKey(filename)
             IN  IF Len(unpack) # 3 THEN [error |-> "ValueError", findq |-> findq]
                 ELSE IF read.error # "" THEN [error |-> read.error, findq |-> findq]
                 ELSE IF parsed.error # "" THEN [error |-> parsed.error, findq |-> findq]
                 ELSE [error |-> "",
                       findq |-> DictSet(findq, parsed.key, LoadFamilyTable(read.table))]

\* the loop: stops at the first member whose iteration raises
RECURSIVE LoadLoop(_, _, _)
LoadLoop(members, i, findq) ==
    IF i > Len(members) THEN [exc |-> None, findq |-> findq]
    ELSE LET step == LoadStep(members, i, findq)
         IN  IF step.error # "" THEN [exc |-> Raise(step.error, i), findq |-> step.findq]
             ELSE LoadLoop(members, i + 1, step.findq)

\* The whole call: the handle's state when the last statement has run, the
\* local variables at exit, and the value returned or the exception
\* propagated.  No statement of the function closes the handle.
LoadResults(archive) ==
    IF ~archive.exists
    THEN [tar |-> "none", locals |-> None, ret |-> None,
          exc |-> Raise("FileNotFoundError", 0)]
    ELSE LET base == ReadMember(archive.members, Find2Path)
         IN  IF base.error # ""
             THEN [tar |-> "open", locals |-> None, ret |-> None,
                   exc |-> Raise(base.error, 0)]
             ELSE LET find2 == LoadBaseline(base.table)
                      loop  == LoadLoop(archive.members, 1, <<>>)
                  IN  IF loop.exc # None
                      THEN [tar |-> "open",
                            locals |-> [find2 |-> find2, findq |-> loop.findq],
                            ret |-> None, exc |-> loop.exc]
                      ELSE [tar |-> "open",
                            locals |-> [find2 |-> find2, findq |-> loop.findq],
                            ret |-> [find2 |-> find2, findq |-> loop.findq],
                            exc |-> None]

(***************************************************************************)
(* compute_stats.                                                          *)
(***************************************************************************)
\* for c in data.columns: if c.startswith('max_'): max_ind_column = c
RECURSIVE MaxIndLoop(_, _, _)
MaxIndLoop(columns, i, max_ind_column) ==
    IF i > Len(columns) THEN max_ind_column
    ELSE MaxIndLoop(columns, i + 1,
                    IF StartsWith(columns[i], cMaxPrefix) THEN columns[i]
                    ELSE max_ind_column)

\* mutant: the first column with the prefix wins
MaxIndColumn_first(columns) ==
    IF \E i \in 1..Len(columns) : StartsWith(columns[i], cMaxPrefix)
    THEN columns[SetMin({i \in 1..Len(columns) : StartsWith(columns[i], cMaxPrefix)})]
    ELSE None

MaxIndColumn(columns) == MaxIndLoop(columns, 1, None)

\* mutant: rows with a missing cell are left out of the mask
Mask_dropna(data, filter_by) ==
    [r \in 1..Len(data.rows) |->
        /\ FloatEq(data.rows[r][ColIndex(data, filter_by[1])], filter_by[2])
        /\ ~RowHasNaN(data.rows[r])]

\* data[filter_by[0]] == filter_by[1], one boolean per row
Mask(data, filter_by) ==
    [r \in 1..Len(data.rows) |->
        FloatEq(data.rows[r][ColIndex(data, filter_by[1])], filter_by[2])]

\* mask.sum()
MaskSum(mask) == Cardinality({r \in 1..Len(mask) : mask[r]})

\* the values of a series that are not missing (skipna)
RECURSIVE NotNa(_)
NotNa(series) ==
    IF series = <<>> THEN <<>>
    ELSE (IF IsNaN(series[1]) THEN <<>> ELSE <<series[1]>>) \o NotNa(Tail(series))

RECURSIVE Sum(_)
Sum(values) ==
    IF values = <<>> THEN R(0, 1) ELSE RAdd(values[1], Sum(Tail(values)))

\* mutant: the mean of no value is 0
Mean_zero(series) ==
    LET values == NotNa(series)
    IN  RDiv(Sum(values), R(IF values = <<>> THEN 1 ELSE Len(values), 1))

\* Series.mean(): over the values present; NaN when there is none
Mean(series) ==
    LET values == NotNa(series)
    IN  IF values = <<>> THEN NaN
        ELSE RDiv(Sum(values), R(Len(values), 1))

\* the square root of a variance, kept symbolic
Sqrt(v) == IF IsNaN(v) THEN NaN ELSE [sqrt |-> v]

\* Series.std(): sample standard deviation (ddof = 1) over the values
\* present; NaN with fewer than two of them
Std(series) ==
    LET values == NotNa(series)
        n      == Len(values)
        avg    == RDiv(Sum(values), R(n, 1))
        sq     == [i \in 1..n |-> RMul(RSub(values[i], avg), RSub(values[i], avg))]
    IN  IF n < 2 THEN NaN
        ELSE Sqrt(RDiv(Sum(sq), R(n - 1, 1)))

\* masked[max_ind_column] / masked['exact'], row by row
Match(masked, max_ind_column) ==
    [r \in 1..Len(masked.rows) |->
        RDiv(masked.rows[r][ColIndex(masked, max_ind_column)],
             masked.rows[r][ColIndex(masked, cExact)])]

\* The whole call: a column lookup with an unknown label (None included)
\* raises KeyError; the evaluation order is that of the statements.
ComputeStats(data, filter_by) ==
    LET max_ind_column == MaxIndColumn(data.columns)
        loc            == [max_ind_column |-> max_ind_column]
    IN  IF ~HasColumn(data, filter_by[1])
        THEN [locals |-> loc, ret |-> None, exc |-> Raise("KeyError", 66)]
        ELSE LET mask   == Mask(data, filter_by)
                 masked == Table(data.columns, SelectRows(data.rows, mask))
             IN  IF max_ind_column = None \/ ~HasColumn(masked, cExact)
                 THEN [locals |-> loc, ret |-> None, exc |-> Raise("KeyError", 69)]
                 ELSE IF ~HasColumn(masked, cTime)
                 THEN [locals |-> loc, ret |-> None, exc |-> Raise("KeyError", 70)]
                 ELSE LET match == Match(masked, max_ind_column)
                      IN  [locals |-> loc,
                           ret |-> <<Mean(Column(masked, cTime)),
                                     Std(Column(masked, cTime)),
                                     Mean(match), Std(match), MaskSum(mask)>>,
                           exc |-> None]

(***************************************************************************)
(* general_stats.  findq_subset is None or [keys |-> the sequence the      *)
(* iterable yields].  The summary is [rows |-> the rows handed to          *)
(* pandas.DataFrame], one record per row with the summary's columns.       *)
(***************************************************************************)
\* mutant: keys the mapping does not have are left out
RECURSIVE SubsetPairs_skip(_, _)
SubsetPairs_skip(findq, findq_subset) ==
    IF findq_subset = <<>> THEN [error |-> "", pairs |-> <<>>]
    ELSE LET key  == Head(findq_subset)
             rest == SubsetPairs_skip(findq, Tail(findq_subset))
         IN  IF ~DictHas(findq, key) THEN rest
             ELSE [error |-> "",
                   pairs |-> <<[key |-> key, value |-> DictGet(findq, key)]>>
                             \o rest.pairs]

\* [(key, findq[key]) for key in findq_subset]: the pairs in order, or
\* KeyError at the first key the mapping does not have
RECURSIVE SubsetPairs(_, _)
SubsetPairs(findq, findq_subset) ==
    IF findq_subset = <<>> THEN [error |-> "", pairs |-> <<>>]
    ELSE LET key == Head(findq_subset)
         IN  IF ~DictHas(findq, key) THEN [error |-> "KeyError", pairs |-> <<>>]
             ELSE LET rest == SubsetPairs(findq, Tail(findq_subset))
                  IN  IF rest.error # "" THEN rest
                      ELSE [error |-> "",
                            pairs |-> <<[key |-> key, value |-> DictGet(findq, key)]>>
                                      \o rest.pairs]

\* dict(pairs)
RECURSIVE DictOf(_, _)
DictOf(pairs, d) ==
    IF pairs = <<>> THEN d
    ELSE DictOf(Tail(pairs), DictSet(d, pairs[1].key, pairs[1].value))

\* 1 - alpha * gamma
GammaOf(alpha, gamma) == RSub(R(1, 1), RMul(alpha, gamma))

\* ('Find2' or 'FindQ', Lambda, Gamma) + compute_stats(...)
SummaryRow(method, lambd, gamma, stats) ==
    [Method |-> method, Lambda |-> lambd, Gamma |-> gamma,
     TimeMean |-> stats[1], TimeStd |-> stats[2],
     MatchMean |-> stats[3], MatchStd |-> stats[4], N |-> stats[5]]

Find2Row(stats) == SummaryRow("Find2", None, None, stats)

\* mutant: gamma reported as given
FindQRow_raw(key, alpha, stats) == SummaryRow("FindQ", key[1], key[2], stats)

FindQRow(key, alpha, stats) == SummaryRow("FindQ", key[1], GammaOf(alpha, key[2]), stats)

\* for (lambd, gamma), v in findq.items(): rows.append(...); ncalls counts
\* the calls of compute_stats made so far
RECURSIVE FamilyRows(_, _, _, _, _)
FamilyRows(findq, i, alpha, rows, ncalls) ==
    IF i > Len(findq) THEN [exc |-> None, rows |-> rows, ncalls |-> ncalls]
    ELSE LET stats == ComputeStats(findq[i].value, <<cAlpha, alpha>>)
         IN  IF stats.exc # None
             THEN [exc |-> stats.exc, rows |-> rows, ncalls |-> ncalls + 1]
             ELSE FamilyRows(findq, i + 1, alpha,
                             Append(rows, FindQRow(findq[i].key, alpha, stats.ret)),
                             ncalls + 1)

\* mutant: the subset is ignored
Restrict_whole(findq, findq_subset) == [error |-> "", findq |-> findq]

\* the mapping the rows are computed from: findq itself, or its restriction
Restrict(findq, findq_subset) ==
    IF findq_subset = None THEN [error |-> "", findq |-> findq]
    ELSE LET sub == SubsetPairs(findq, findq_subset.keys)
         IN  IF sub.error # "" THEN [error |-> sub.error, findq |-> findq]
             ELSE [error |-> "", findq |-> DictOf(sub.pairs, <<>>)]

\* The whole call.
GeneralStats(find2, findq, findq_subset, alpha) ==
    LET restricted == Restrict(findq, findq_subset)
    IN  IF restricted.error # ""
        THEN [locals |-> [findq |-> findq, ncalls |-> 0], ret |-> None,
              exc |-> Raise(restricted.error, 95)]
        ELSE LET base == ComputeStats(find2, <<cAlpha, alpha>>)
             IN  IF base.exc # None
                 THEN [locals |-> [findq |-> restricted.findq, ncalls |-> 1],
                       ret |-> None, exc |-> base.exc]
                 ELSE LET fam == FamilyRows(restricted.findq, 1, alpha,
                                            <<Find2Row(base.ret)>>, 1)
                      IN  [locals |-> [findq |-> restricted.findq,
                                       ncalls |-> fam.ncalls],
                           ret |-> IF fam.exc # None THEN None
                                   ELSE [rows |-> fam.rows],
                           exc |-> fam.exc]

(***************************************************************************)
(* The inputs the calls are made with.                                     *)
(***************************************************************************)
\* all the column labels a generated table may carry, and sample rows with
\* one cell per label: alpha, time, exact, max_x, max_y, maxi
AllColumns == <<cAlpha, cTime, cExact, cMaxX, cMaxY, cMaxi>>

Row1 == <<R(1, 10), R(2, 1), R(10, 1), R(9, 1), R(8, 1), R(1, 1)>>

Row2 == <<R(1, 10), R(4, 1), R(10, 1), R(11, 1), R(10, 1), R(1, 1)>>

\* another alpha, no max_y
Row3 == <<R(2, 10), R(3, 1), R(10, 1), R(10, 1), NaN, R(1, 1)>>

\* no time
Row4 == <<R(1, 10), NaN, R(10, 1), R(9, 1), R(8, 1), R(1, 1)>>

\* exact is 0: the ratios are 5/0 and 0/0
Row5 == <<R(1, 10), R(2, 1), R(0, 1), R(5, 1), R(0, 1), R(1, 1)>>

\* no alpha
Row6 == <<NaN, R(2, 1), R(10, 1), R(9, 1), R(8, 1), R(1, 1)>>

RowPool == {Row1, Row2, Row3, Row4, Row5, Row6}

\* the columns a table keeps, as positions in AllColumns, in table order
StdLayout == <<1, 2, 3, 4>>

Layouts ==
    { StdLayout,            \* one candidate column
      <<1, 2, 3, 4, 5>>,    \* two candidate columns, max_y last
      <<1, 5, 2, 3, 4>>,    \* two candidate columns, max_x last
      <<1, 2, 3, 6>>,       \* no candidate column
      <<2, 3, 4>>,          \* no alpha
      <<1, 3, 4>>,          \* no time
      <<1, 2, 4>> }         \* no exact

Project(layout, rows) ==
    Table([i \in 1..Len(layout) |-> AllColumns[layout[i]]],
          [r \in 1..Len(rows) |-> [i \in 1..Len(layout) |-> rows[r][layout[i]]]])

Tables == {Project(l, rows) : l \in Layouts, rows \in SeqsUpTo(RowPool, MaxRows)}

FilterColumns == {cAlpha, cTime}

FilterValues == {R(1, 10), R(2, 10), R(2, 1), NaN}

\* fixed tables for the archives and the family mappings
TableFull == Project(StdLayout, <<Row1, Row2>>)

TableGaps == Project(StdLayout, <<Row4, Row1>>)

TableOther == Project(StdLayout, <<Row3>>)

TableNoMax == Project(<<1, 2, 3, 6>>, <<Row1>>)

\* member names of an archive
Dir == RunId \o <<"/">>

Csv == <<".", "c", "s", "v">>

NamePool ==
    { Dir \o FindgPrefix \o <<"_", "1", "_", "0", ".", "5">> \o Csv,
      Dir \o FindgPrefix \o <<"_", "1", ".", "0", "_", "0", ".", "5">> \o Csv,
      Dir \o FindgPrefix \o <<"_", "2", "_", "1">> \o Csv,
      Dir \o FindgPrefix \o <<"_", "2", "_", "x">> \o Csv,
      Dir \o FindgPrefix \o <<"_", "2">> \o Csv,
      Dir \o FindgPrefix \o <<"_", "1", "_", "2", "_", "5">> \o Csv,
      Dir \o FindgPrefix \o <<"_", "2", "_", "0", ".", "5">>,
      FindgPrefix \o <<"_", "1", "_", "1", "/", "l", "o", "g">> \o Csv }

File(name, table) == [name |-> name, isfile |-> TRUE, table |-> table]

Directory(name) == [name |-> name, isfile |-> FALSE, table |-> None]

MemberPool ==
    {File(n, t) : n \in NamePool, t \in {TableFull, TableGaps}}
    \cup {Directory(Dir \o FindgPrefix \o <<"_", "5", "_", "5">>)}

BaselineOptions ==
    {<<>>} \cup {<<File(Find2Path, t)>> : t \in {TableFull, TableGaps}}

NoArchive == [exists |-> FALSE, members |-> <<>>]

Archives ==
    {NoArchive} \cup
    {[exists |-> TRUE, members |-> b \o m] :
        b \in BaselineOptions, m \in SeqsUpTo(MemberPool, MaxMembers)}

\* family mappings: distinct keys in any order, each with a table
KeyPool == {<<R(1, 1), R(1, 2)>>, <<R(2, 1), R(1, 2)>>, <<R(1, 1), R(1, 1)>>}

FamilyTables == {TableFull, TableGaps, TableOther, TableNoMax}

Families ==
    {d \in SeqsUpTo([key : KeyPool, value : FamilyTables], MaxFamily) :
        \A i, j \in 1..Len(d) : d[i].key = d[j].key => i = j}

Subsets == {None} \cup {[keys |-> s] : s \in SeqsUpTo(KeyPool, MaxSubset)}

Alphas == {R(1, 10), R(2, 10)}

(***************************************************************************)
(* The calls.  Each specification starts with the arguments of one call    *)
(* chosen; its action runs the call to its return or to the exception it   *)
(* propagates.                                                             *)
(***************************************************************************)
Idle(call) ==
    /\ pc = call
    /\ tar = "none"
    /\ locals = None
    /\ ret = None
    /\ exc = None

Finish(r) ==
    /\ pc' = IF r.exc = None THEN "returned" ELSE "raised"
    /\ locals' = r.locals
    /\ ret' = r.ret
    /\ exc' = r.exc
    /\ UNCHANGED args

InitLoad ==
    /\ args \in [archive : Archives]
    /\ Idle("load_results")

\* The handle once the call is over.  The function never closes it.  While
\* an exception propagates, its traceback keeps the frame, and with it the
\* open handle, alive.  After a return the TarFile object is unreferenced:
\* whether its file is closed then is up to the interpreter's collector.
HandleAfter(r) ==
    IF r.tar = "open" /\ r.exc = None THEN {"open", "collected"} ELSE {r.tar}

CallLoadResults ==
    /\ pc = "load_results"
    /\ LET r == LoadResults(args.archive)
       IN  Finish(r) /\ tar' \in HandleAfter(r)

NextLoad == CallLoadResults

SpecLoad == InitLoad /\ [][NextLoad]_vars

InitStats ==
    /\ args \in [data : Tables, filter_by : FilterColumns \X FilterValues]
    /\ Idle("compute_stats")

CallComputeStats ==
    /\ pc = "compute_stats"
    /\ Finish(ComputeStats(args.data, args.filter_by))
    /\ UNCHANGED tar

NextStats == CallComputeStats

SpecStats == InitStats /\ [][NextStats]_vars

InitGeneral ==
    /\ args \in [find2 : FamilyTables, findq : Families,
                 findq_subset : Subsets, alpha : Alphas]
    /\ Idle("general_stats")

CallGeneralStats ==
    /\ pc = "general_stats"
    /\ Finish(GeneralStats(args.find2, args.findq, args.findq_subset, args.alpha))
    /\ UNCHANGED tar

NextGeneral == CallGeneralStats

SpecGeneral == InitGeneral /\ [][NextGeneral]_vars

\* any one of the three calls
Init == InitLoad \/ InitStats \/ InitGeneral

Next == CallLoadResults \/ CallComputeStats \/ CallGeneralStats

Spec == Init /\ [][Next]_vars

(***************************************************************************)
(* Properties of load_results, under SpecLoad.                             *)
(***************************************************************************)
Range(f) == {f[i] : i \in DOMAIN f}

Members == args.archive.members

\* the members the loop reads: those whose base name starts with 'findg'
FindgMembers == {i \in 1..Len(Members) : StartsWith(Basename(Members[i].name), FindgPrefix)}

\* the fields of a member's base name, extension stripped
NameFields(i) == Split(SplitextRoot(Basename(Members[i].name)), "_")

\* the name does not split into three fields, or lambda or gamma is not a number
Malformed(i) ==
    \/ Len(NameFields(i)) # 3
    \/ ~FloatOk(NameFields(i)[2])
    \/ ~FloatOk(NameFields(i)[3])

\* the (lambda, gamma) pair a well-formed name encodes
EncodedKey(i) == <<Float(NameFields(i)[2]), Float(NameFields(i)[3])>>

\* the table of the baseline member, as stored in the archive
StoredBaseline == Members[GetMember(Members, Find2Path)].table

\* C2: when load_results succeeds, no row of the returned baseline table
\* has a missing value, and the keys of the returned family mapping are
\* exactly the (lambda, gamma) pairs encoded in the names of the members
\* whose base name starts with 'findg'.
C2_LoadedResult ==
    pc = "returned" =>
        /\ \A r \in 1..Len(ret.find2.rows) :
              \A c \in 1..Len(ret.find2.rows[r]) : ~IsNaN(ret.find2.rows[r][c])
        /\ DictKeys(ret.findq) = {EncodedKey(i) : i \in FindgMembers}

\* C2 witness: a successful load that dropped a baseline row and read two
\* members whose names encode the same pair in different spellings
C2_Witness ==
    /\ pc = "returned"
    /\ Len(ret.find2.rows) < Len(StoredBaseline.rows)
    /\ Cardinality(FindgMembers) = 2
    /\ \E i, j \in FindgMembers : Members[i].name # Members[j].name
    /\ Len(ret.findq) = 1

\* C4: the archive handle opened by load_results is released on every exit
\* path, after a return and after an error raised during extraction.
C4_HandleReleased ==
    pc \in {"returned", "raised"} => tar # "open"

\* C5: a 'findg' member whose name does not split into three fields, or
\* whose lambda or gamma is not numeric, makes load_results end with an
\* error: nothing is returned, and the error is raised at that member unless
\* an earlier statement raised (the baseline could not be read, or an
\* earlier member is malformed or is not a readable file).
C5_MalformedNameRaises ==
    (pc # "load_results" /\ \E i \in FindgMembers : Malformed(i)) =>
        LET k == SetMin({i \in FindgMembers : Malformed(i)})
        IN  /\ pc = "raised"
            /\ ret = None
            /\ exc.at <= k
            /\ exc.at = k => exc.type = "ValueError"
            /\ exc.at < k =>
                  \/ exc.at = 0 /\ GetMember(Members, Find2Path) = 0
                  \/ exc.at \in FindgMembers /\ ~Members[exc.at].isfile

\* C5 witness: the error is raised at a malformed member after an earlier
\* member was read into the mapping, which is not returned
C5_Witness ==
    /\ pc = "raised"
    /\ exc.type = "ValueError"
    /\ exc.at \in FindgMembers
    /\ Malformed(exc.at)
    /\ Len(locals.findq) = 1
    /\ ret = None

\* C10: load_results drops rows with a missing value from the baseline table
\* only: each table of the returned family mapping is its archive member's
\* table with all its rows, those with a missing value included.
C10_FamilyTablesUnfiltered ==
    pc = "returned" =>
        /\ \A e \in Range(ret.findq) :
              LET from == SetMax({i \in FindgMembers : EncodedKey(i) = e.key})
              IN  e.value = Members[GetMember(Members, Members[from].name)].table
        /\ Len(ret.find2.rows)
              = Cardinality({r \in 1..Len(StoredBaseline.rows) :
                                ~RowHasNaN(StoredBaseline.rows[r])})

\* C10 witness: a returned family table with a missing value, next to a
\* baseline that lost a row
C10_Witness ==
    /\ pc = "returned"
    /\ \E e \in Range(ret.findq) : \E r \in 1..Len(e.value.rows) : RowHasNaN(e.value.rows[r])
    /\ Len(ret.find2.rows) < Len(StoredBaseline.rows)

(***************************************************************************)
(* Properties of compute_stats, under SpecStats.                           *)
(***************************************************************************)
Data == args.data

FilterColumn == args.filter_by[1]

FilterValue == args.filter_by[2]

\* the rows whose filter column equals the filter value
MatchingRows ==
    {r \in 1..Len(Data.rows) :
        \E c \in 1..Len(Data.columns) :
            /\ Data.columns[c] = FilterColumn
            /\ ~IsNaN(Data.rows[r][c])
            /\ Data.rows[r][c] = FilterValue}

\* the positions of the columns whose name starts with 'max_'
CandidateColumns == {c \in 1..Len(Data.columns) : StartsWith(Data.columns[c], cMaxPrefix)}

\* the table has the columns the statistics read
HasStatColumns ==
    /\ CandidateColumns # {}
    /\ cTime \in Range(Data.columns)
    /\ cExact \in Range(Data.columns)

AllNaNCountZero == <<NaN, NaN, NaN, NaN, 0>>

\* C3, as stated: for all tables and filters with no matching row,
\* compute_stats never raises and returns count 0 with NaN for the four
\* statistics.
C3_NoMatchNeverRaises ==
    (pc # "compute_stats" /\ FilterColumn \in Range(Data.columns) /\ MatchingRows = {}) =>
        (pc = "returned" /\ ret = AllNaNCountZero)

\* C3, amended: for all tables that have a 'time' column, an 'exact' column
\* and a column whose name starts with 'max_', and all filters on a column
\* of the table with no matching row, compute_stats returns count 0 with NaN
\* for the four statistics; without one of those columns it raises KeyError.
C3_NoMatchGivesNaN ==
    (pc # "compute_stats" /\ FilterColumn \in Range(Data.columns) /\ MatchingRows = {}) =>
        IF HasStatColumns
        THEN pc = "returned" /\ ret = AllNaNCountZero
        ELSE pc = "raised" /\ exc.type = "KeyError"

\* C3 witness: a table with rows, none of which matches, and the result
C3_Witness ==
    /\ pc = "returned"
    /\ Len(Data.rows) = MaxRows
    /\ MatchingRows = {}
    /\ ret = AllNaNCountZero

\* C8: with at least one matching row, the count compute_stats returns is
\* the number of rows whose filter column equals the filter value, whatever
\* is missing in the other columns of those rows.
C8_CountIsMatchingRows ==
    (pc = "returned" /\ MatchingRows # {}) => ret[5] = Cardinality(MatchingRows)

\* C8 witness: every row matches and one of them has a missing cell
C8_Witness ==
    /\ pc = "returned"
    /\ ret[5] = MaxRows
    /\ \E r \in MatchingRows : RowHasNaN(Data.rows[r])

\* the ratio mean over the matching rows with candidate column c
RatioMeanWith(c) ==
    LET e     == CHOOSE i \in 1..Len(Data.columns) : Data.columns[i] = cExact
        rows  == {r \in MatchingRows :
                     ~IsNaN(Data.rows[r][c]) /\ ~IsNaN(Data.rows[r][e])
                     /\ ~(Data.rows[r][c].num = 0 /\ Data.rows[r][e].num = 0)}
        order == CHOOSE q \in [1..Cardinality(rows) -> rows] :
                     \A i, j \in 1..Cardinality(rows) : i < j => q[i] < q[j]
    IN  IF rows = {} THEN NaN
        ELSE RDiv(Sum([i \in 1..Cardinality(rows) |->
                          RDiv(Data.rows[order[i]][c], Data.rows[order[i]][e])]),
                  R(Cardinality(rows), 1))

\* C9: the candidate column is the last column, in column order, whose name
\* starts with 'max_': with several such columns the call does not fail for
\* that and the ratio is taken from the last one; with none the call ends
\* with an error.
C9_LastCandidateColumn ==
    pc # "compute_stats" =>
        IF CandidateColumns = {}
        THEN pc = "raised" /\ exc.type = "KeyError"
        ELSE /\ locals.max_ind_column = Data.columns[SetMax(CandidateColumns)]
             /\ ( /\ FilterColumn \in Range(Data.columns)
                  /\ cTime \in Range(Data.columns)
                  /\ cExact \in Range(Data.columns) ) =>
                    /\ pc = "returned"
                    /\ ret[3] = RatioMeanWith(SetMax(CandidateColumns))

\* C9 witness: two candidate columns that give different ratios, and the
\* ratio returned is the last one's
C9_Witness ==
    /\ pc = "returned"
    /\ Cardinality(CandidateColumns) = 2
    /\ ~IsNaN(ret[3])
    /\ ret[3] = RatioMeanWith(SetMax(CandidateColumns))
    /\ ret[3] # RatioMeanWith(SetMin(CandidateColumns))

(***************************************************************************)
(* Properties of general_stats, under SpecGeneral.                         *)
(***************************************************************************)
SubsetGiven == args.findq_subset # None

\* the keys of the subset, as a set
SubsetKeys == Range(args.findq_subset.keys)

\* a sequence without the later occurrences of its repeated elements
RECURSIVE Dedup(_, _)
Dedup(seq, seen) ==
    IF seq = <<>> THEN <<>>
    ELSE IF Head(seq) \in seen THEN Dedup(Tail(seq), seen)
    ELSE <<Head(seq)>> \o Dedup(Tail(seq), seen \cup {Head(seq)})

\* the keys of the (possibly restricted) family in mapping iteration order:
\* a dict iterates in the order its keys were first inserted
FamilyOrder ==
    IF SubsetGiven THEN Dedup(args.findq_subset.keys, {})
    ELSE [i \in 1..Len(args.findq) |-> args.findq[i].key]

\* the table the family mapping holds under a key
FamilyTable(key) ==
    (CHOOSE e \in Range(args.findq) : e.key = key).value

\* the number of rows of a table whose alpha equals the call's alpha
AlphaRows(table) ==
    Cardinality({r \in 1..Len(table.rows) :
        \E c \in 1..Len(table.columns) :
            /\ table.columns[c] = cAlpha
            /\ table.rows[r][c] = args.alpha})

\* C1: general_stats returns a table with 1 + |S| rows for a key subset S
\* (|S| the number of keys in S, all of them keys of findq), and with
\* 1 + |findq| rows when no subset is given.
C1_RowCount ==
    pc = "returned" =>
        Len(ret.rows) = 1 + (IF SubsetGiven THEN Cardinality(SubsetKeys)
                             ELSE Len(args.findq))

\* C1 witness: a subset of one key taken from a family of two
C1_Witness ==
    /\ pc = "returned"
    /\ SubsetGiven
    /\ Cardinality(SubsetKeys) = 1
    /\ Len(args.findq) = 2
    /\ Len(ret.rows) = 2

\* C6: with a key subset, the family is restricted to exactly the keys of
\* the subset; if a key of the subset is not in the family mapping, the call
\* ends with an error before any statistic is computed and returns nothing.
C6_SubsetRestricts ==
    (pc # "general_stats" /\ SubsetGiven) =>
        IF SubsetKeys \subseteq DictKeys(args.findq)
        THEN /\ DictKeys(locals.findq) = SubsetKeys
             /\ \A e \in Range(locals.findq) : e.value = FamilyTable(e.key)
             /\ pc = "returned" =>
                   {<<ret.rows[i].Lambda, ret.rows[i].Gamma>> : i \in 2..Len(ret.rows)}
                     = {<<k[1], RSub(R(1, 1), RMul(args.alpha, k[2]))>> : k \in SubsetKeys}
        ELSE /\ pc = "raised"
             /\ exc.type = "KeyError"
             /\ locals.ncalls = 0
             /\ ret = None

\* C6 witness: a subset whose first key is in the family and whose second
\* key is not; the call raised with no statistic computed
C6_Witness ==
    /\ pc = "raised"
    /\ SubsetGiven
    /\ Len(args.findq_subset.keys) = 2
    /\ args.findq_subset.keys[1] \in DictKeys(args.findq)
    /\ args.findq_subset.keys[2] \notin DictKeys(args.findq)
    /\ locals.ncalls = 0
    /\ ret = None

\* C7: the first row of the summary is the baseline row, Method 'Find2'
\* with null Lambda and Gamma; it is followed by one 'FindQ' row per entry
\* of the (possibly restricted) family in mapping iteration order, with the
\* key's lambda as Lambda and 1 - alpha*gamma as Gamma; an entry without a
\* row matching alpha has its row too, with count 0.
C7_SummaryRows ==
    pc = "returned" =>
        /\ ret.rows[1].Method = "Find2"
        /\ ret.rows[1].Lambda = None
        /\ ret.rows[1].Gamma = None
        /\ ret.rows[1].N = AlphaRows(args.find2)
        /\ Len(ret.rows) = 1 + Len(FamilyOrder)
        /\ \A i \in 1..Len(FamilyOrder) :
              LET key == FamilyOrder[i]
                  row == ret.rows[i + 1]
              IN  /\ row.Method = "FindQ"
                  /\ row.Lambda = key[1]
                  /\ row.Gamma = RSub(R(1, 1), RMul(args.alpha, key[2]))
                  /\ row.N = AlphaRows(FamilyTable(key))

\* C7 witness: two family entries, the first with no row matching alpha and
\* Gamma 1 - 0.1 * 0.5 = 0.95, the second with matching rows
C7_Witness ==
    /\ pc = "returned"
    /\ args.alpha = R(1, 10)
    /\ Len(ret.rows) = 3
    /\ ret.rows[2].N = 0
    /\ IsNaN(ret.rows[2].TimeMean)
    /\ ret.rows[2].Gamma = R(19, 20)
    /\ ret.rows[3].N > 0

====
